---- MODULE Spec2Model ----
(***************************************************************************)
(* A model of src/h.py: the word-window chunker chunk_text and the         *)
(* converter file_to_json that calls it and builds the chunk records.      *)
(*                                                                         *)
(* A Python str is modelled as a sequence of one-character strings, so     *)
(* that strip(), split() and " ".join() are computed character by          *)
(* character as CPython computes them.                                     *)
(***************************************************************************)
EXTENDS Integers, Sequences, FiniteSets, TLC

(***************************************************************************)
(* Bounds of the model.                                                    *)
(***************************************************************************)
\* longest enumerated text, in characters
MaxLen == 6
\* largest enumerated chunk_size; overlap ranges one past it
MaxChunkSize == 3
\* longest enumerated file content of file_to_json, in characters
MaxFileLen == 2

\* The window loop of an invalid (overlap >= chunk_size) call never ends;
\* the model stops it after MaxIter iterations.  Every valid call on a
\* text of the model needs fewer: at most one iteration per word, and no
\* text of the model has more than MaxLen + 1 words.
MaxIter == MaxLen + 1

(***************************************************************************)
(* Characters and texts.                                                   *)
(***************************************************************************)
\* characters str.strip() and str.split() treat as whitespace
Whitespace == {" ", "\t", "\n"}

\* the characters of the enumerated texts: two letters and the blank
Alphabet == {"a", "b", " "}

\* all strings over Alphabet of length at most n
StringsUpTo(n) == UNION {[1..k -> Alphabet] : k \in 0..n}

\* the texts the spec names, beside the enumerated ones
ExampleTexts ==
    { <<"a", " ", "b", " ", "c", " ", "d", " ", "e">>,
      <<" ", " ", " ">>,
      <<"\n", "a", "\t", "\n", "b", " ">>,
      <<"\t", "\n">> }

Texts == StringsUpTo(MaxLen) \cup ExampleTexts

\* the file contents file_to_json is run on
FileTexts == StringsUpTo(MaxFileLen) \cup ExampleTexts

\* the default parameters and the parameter pairs the spec names
ExampleParams == { <<650, 130>>, <<100, 100>>, <<100, 150>>, <<3, 1>> }

Params ==
    ((0..MaxChunkSize) \X ((0 - 1)..(MaxChunkSize + 1))) \cup ExampleParams

(***************************************************************************)
(* Python string and list primitives.                                      *)
(***************************************************************************)
Min(a, b) == IF a < b THEN a ELSE b

RECURSIVE LStrip(_)
\* str.lstrip(): drop the leading whitespace
LStrip(s) ==
    IF s = <<>> THEN <<>>
    ELSE IF Head(s) \in Whitespace THEN LStrip(Tail(s)) ELSE s

RECURSIVE RStrip(_)
\* str.rstrip(): drop the trailing whitespace
RStrip(s) ==
    IF s = <<>> THEN <<>>
    ELSE IF s[Len(s)] \in Whitespace THEN RStrip(SubSeq(s, 1, Len(s) - 1))
    ELSE s

\* str.strip()
Strip(s) == RStrip(LStrip(s))

RECURSIVE SplitFrom(_, _, _, _)
\* str.split() scanning s from index i: cur is the word being read, acc the
\* words read; a run of whitespace ends a word and yields no empty word
SplitFrom(s, i, cur, acc) ==
    IF i > Len(s)
    THEN IF cur = <<>> THEN acc ELSE Append(acc, cur)
    ELSE IF s[i] \in Whitespace
         THEN SplitFrom(s, i + 1, <<>>,
                        IF cur = <<>> THEN acc ELSE Append(acc, cur))
         ELSE SplitFrom(s, i + 1, Append(cur, s[i]), acc)

\* str.split() with no separator
Split(s) == SplitFrom(s, 1, <<>>, <<>>)

RECURSIVE Join(_)
\* " ".join(ws)
Join(ws) ==
    IF ws = <<>> THEN <<>>
    ELSE IF Len(ws) = 1 THEN ws[1]
    ELSE ws[1] \o <<" ">> \o Join(Tail(ws))

\* a slice bound as list.__getitem__ normalises it: a negative bound counts
\* from the end, and the result is clamped to 0..n
SliceIndex(k, n) ==
    IF k < 0 THEN (IF k + n < 0 THEN 0 ELSE k + n)
    ELSE IF k > n THEN n ELSE k

\* seq[lo:hi] with 0-based, end-exclusive bounds
PySlice(seq, lo, hi) ==
    SubSeq(seq, SliceIndex(lo, Len(seq)) + 1, SliceIndex(hi, Len(seq)))

(***************************************************************************)
(* State.                                                                  *)
(***************************************************************************)
VARIABLES
    text,         \* chunk_text: the parameter text
    chunk_size,   \* the parameter chunk_size (of chunk_text and file_to_json)
    overlap,      \* the parameter overlap (of chunk_text and file_to_json)
    words,        \* chunk_text: the local words
    chunks,       \* chunk_text: the local chunks, the value returned
    start,        \* chunk_text: the local start
    spans,        \* history: <<start, end>> of every window taken
    pc,           \* chunk_text: "start", "loop" (line 24), "done" (returned)
    raised,       \* the exception that left the function, or "none"
    input_file,   \* file_to_json: the parameter input_file, [dir, stem, suffix]
    output_file,  \* file_to_json: the parameter output_file, <<>> for None
    fs,           \* the file system: [isfile, readable, content, writable]
    bound,        \* file_to_json: the local names bound so far
    ext,          \* file_to_json: the local ext
    full_text,    \* file_to_json: the local full_text
    documents,    \* file_to_json: the local documents
    written,      \* the files written: a set of [name, data]
    printed,      \* the messages printed, in order
    fpc           \* file_to_json: "idle", "entry", "chunking", "returned",
                  \* "raised"

chunkVars == <<text, words, chunks, start, spans, pc>>
fileVars == <<input_file, output_file, fs, bound, ext, full_text, documents,
              written, printed, fpc>>
vars == <<text, chunk_size, overlap, words, chunks, start, spans, pc, raised,
          input_file, output_file, fs, bound, ext, full_text, documents,
          written, printed, fpc>>

(***************************************************************************)
(* chunk_text, lines 12-30.                                                *)
(***************************************************************************)
\* a test for the empty string that forgets strip()
MutTextIsBlankNoStrip(t) == t = <<>>

\* line 17: not text.strip()
TextIsBlank(t) == Strip(t) = <<>>

\* a loop condition that stops one word early
MutLoopCondOffByOne(s, ws) == s < Len(ws) - 1

\* line 24: the loop condition
LoopCond(s, ws) == s < Len(ws)

\* line 25: end = min(start + chunk_size, len(words))
WindowEnd(s, cs, n) == Min(s + cs, n)

RECURSIVE Concat(_)
Concat(ws) == IF ws = <<>> THEN <<>> ELSE Head(ws) \o Concat(Tail(ws))

\* a window joined with the empty separator
MutWindowNoSeparator(ws, s, e) == Concat(PySlice(ws, s, e))

\* line 26: chunk = " ".join(words[start:end])
Window(ws, s, e) == Join(PySlice(ws, s, e))

\* a step that forgets the overlap
MutNextStartNoOverlap(s, cs, ov) == s + cs

\* a step with its operands exchanged
MutNextStartSwapped(s, cs, ov) == s + ov - cs

\* line 28: start += chunk_size - overlap
NextStart(s, cs, ov) == s + cs - ov

\* lines 17-22: the early return on a blank text, else the split and the
\* initialisation of the loop
ChunkTextEntry ==
    /\ pc = "start"
    /\ IF TextIsBlank(text)
       THEN /\ pc' = "done"
            /\ UNCHANGED words
       ELSE /\ pc' = "loop"
            /\ words' = Split(text)
    /\ chunks' = <<>>
    /\ start' = 0
    /\ UNCHANGED <<text, chunk_size, overlap, spans, raised>>
    /\ UNCHANGED fileVars

\* lines 24-28: one iteration of the window loop
LoopIter ==
    /\ pc = "loop"
    /\ LoopCond(start, words)
    /\ Len(chunks) < MaxIter
    /\ LET end == WindowEnd(start, chunk_size, Len(words))
       IN  /\ chunks' = Append(chunks, Window(words, start, end))
           /\ spans' = Append(spans, <<start, end>>)
    /\ start' = NextStart(start, chunk_size, overlap)
    /\ UNCHANGED <<text, chunk_size, overlap, words, pc, raised>>
    /\ UNCHANGED fileVars

\* lines 24 and 30: the loop condition fails and chunks is returned
LoopExit ==
    /\ pc = "loop"
    /\ ~LoopCond(start, words)
    /\ pc' = "done"
    /\ UNCHANGED <<text, chunk_size, overlap, words, chunks, start, spans,
                   raised>>
    /\ UNCHANGED fileVars


\* chunk_text as file_to_json calls it (line 99): the loop of lines 24-28
\* run from start s with the chunks acc taken so far; n counts the
\* iterations left before the model gives the call up as never returning
RECURSIVE ChunkLoop(_, _, _, _, _, _)
ChunkLoop(ws, s, acc, cs, ov, n) ==
    IF ~LoopCond(s, ws) THEN [returns |-> TRUE, value |-> acc]
    ELSE IF n = 0 THEN [returns |-> FALSE, value |-> acc]
    ELSE ChunkLoop(ws, NextStart(s, cs, ov),
                   Append(acc, Window(ws, s, WindowEnd(s, cs, Len(ws)))),
                   cs, ov, n - 1)

\* lines 12-30 as one call: [returns, value]
ChunkTextCall(t, cs, ov) ==
    IF TextIsBlank(t) THEN [returns |-> TRUE, value |-> <<>>]
    ELSE ChunkLoop(Split(t), 0, <<>>, cs, ov, MaxIter)

(***************************************************************************)
(* file_to_json, lines 60-132.                                             *)
(***************************************************************************)
\* the calls of the model: a path is [dir, stem, suffix]
InputFiles ==
    { [dir |-> "", stem |-> "doc", suffix |-> ".txt"],
      [dir |-> "in/", stem |-> "notes", suffix |-> ".MD"],
      [dir |-> "", stem |-> "paper", suffix |-> ".pdf"],
      [dir |-> "", stem |-> "sheet", suffix |-> ".csv"] }

OutputFiles == { <<>>, <<"my_chunks.json">> }

\* str.lower() on the suffixes of InputFiles
Lower(sfx) == IF sfx = ".MD" THEN ".md" ELSE sfx

\* os.path.basename(input_file), line 103
Basename(f) == f.stem \o f.suffix

\* os.path.splitext(input_file)[0], line 121
SplitextRoot(f) == f.dir \o f.stem

\* the parameters of file_to_json, bound on entry (lines 60-65)
ParamNames == {"input_file", "output_file", "chunk_size", "overlap"}

\* the names file_to_json assigns somewhere in its body, which the compiler
\* therefore makes local to the whole function: the assignment targets,
\* the for targets of line 105, the with target and the except target
LocalNames ==
    ParamNames \cup
    {"ext", "full_text", "chunks", "documents", "source_name", "i",
     "chunk_text", "doc", "base", "f", "e"}

\* the load of a name inside file_to_json with the locals b bound: a local
\* name is read from the frame, and reading it unbound raises
\* UnboundLocalError; any other name is looked up in the module
NameLookup(name, b) ==
    IF name \in LocalNames
    THEN (IF name \in b THEN "local" ELSE "UnboundLocalError")
    ELSE "global"

Digits == <<"0", "1", "2", "3", "4", "5", "6", "7", "8", "9">>

RECURSIVE Decimal(_)
\* the decimal digits of n >= 0
Decimal(n) ==
    IF n < 10 THEN Digits[n + 1]
    ELSE Decimal(n \div 10) \o Digits[(n % 10) + 1]

RECURSIVE PadLeft(_, _)
\* s padded with "0" on the left to width w
PadLeft(s, w) == IF Len(s) >= w THEN s ELSE PadLeft("0" \o s, w)

\* f"{i:04d}", line 107
ZeroPad4(i) == PadLeft(Decimal(i), 4)

\* lines 106-116: the record of the chunk at 1-based position i
Document(cks, i, source_name, e) ==
    [id |-> "chunk_" \o source_name \o "_" \o ZeroPad4(i),
     text_content |-> cks[i],
     metadata |->
        [source |-> source_name,
         file_type |-> e,
         chunk_index |-> i,
         total_chunks |-> Len(cks),
         chunk_size_words_approx |-> Len(Split(cks[i]))]]

\* lines 102-117: documents after the loop over enumerate(chunks, 1)
BuildDocuments(cks, source_name, e) ==
    [i \in 1..Len(cks) |-> Document(cks, i, source_name, e)]

\* lines 120-122: the output file name
OutputName(out, f) ==
    IF out = <<>> THEN SplitextRoot(f) \o "_chunks.json" ELSE out[1]

\* lines 72-96: the file test, the extraction and the test for content
FtjStart ==
    /\ fpc = "entry"
    /\ IF ~fs.isfile
       THEN /\ printed' = Append(printed, "Error: File not found")
            /\ fpc' = "returned"
            /\ UNCHANGED <<bound, ext, full_text>>
       ELSE LET e == Lower(input_file.suffix)
            IN  /\ ext' = e
                /\ IF e \notin {".pdf", ".txt", ".md"}
                   THEN /\ printed' = printed \o
                              <<"Processing", "Unsupported file type">>
                        /\ fpc' = "returned"
                        /\ bound' = bound \cup {"ext"}
                        /\ UNCHANGED full_text
                   ELSE IF ~fs.readable
                   THEN /\ printed' = printed \o
                              <<"Processing", "Error reading file">>
                        /\ fpc' = "returned"
                        /\ bound' = bound \cup {"ext", "e"}
                        /\ UNCHANGED full_text
                   ELSE /\ full_text' = fs.content
                        /\ bound' = bound \cup {"ext", "full_text"}
                        /\ IF Strip(fs.content) = <<>>
                           THEN /\ printed' = printed \o
                                      <<"Processing", "No text content found">>
                                /\ fpc' = "returned"
                           ELSE /\ printed' = Append(printed, "Processing")
                                /\ fpc' = "chunking"
    /\ UNCHANGED <<chunk_size, overlap, raised, input_file, output_file, fs,
                   documents, written>>
    /\ UNCHANGED chunkVars

\* lines 99-132: the call of chunk_text, the records and the JSON file
FtjChunkAndSave ==
    /\ fpc = "chunking"
    /\ IF NameLookup("chunk_text", bound) = "UnboundLocalError"
       THEN /\ raised' = "UnboundLocalError"
            /\ fpc' = "raised"
            /\ UNCHANGED <<bound, documents, written, printed>>
       ELSE LET call == ChunkTextCall(full_text, chunk_size, overlap)
                source_name == Basename(input_file)
                docs == BuildDocuments(call.value, source_name, ext)
                name == OutputName(output_file, input_file)
            IN  IF ~call.returns
                THEN /\ fpc' = "hung"
                     /\ UNCHANGED <<bound, documents, written, printed,
                                    raised>>
                ELSE /\ documents' = docs
                     /\ bound' = bound \cup
                           {"chunks", "documents", "source_name"} \cup
                           (IF docs = <<>> THEN {}
                            ELSE {"i", "chunk_text", "doc"}) \cup
                           (IF output_file = <<>> THEN {"base"} ELSE {})
                           \cup (IF fs.writable THEN {"f"} ELSE {"e"})
                     /\ IF fs.writable
                        THEN /\ written' = written \cup
                                   {[name |-> name, data |-> docs]}
                             /\ printed' = Append(printed, "Success!")
                        ELSE /\ printed' =
                                   Append(printed, "Error writing JSON")
                             /\ UNCHANGED written
                     /\ fpc' = "returned"
                     /\ UNCHANGED raised
    /\ UNCHANGED <<chunk_size, overlap, input_file, output_file, fs, ext,
                   full_text>>
    /\ UNCHANGED chunkVars

(***************************************************************************)
(* Specifications.                                                         *)
(***************************************************************************)
NoFile == [dir |-> "", stem |-> "", suffix |-> ""]
NoFs == [isfile |-> FALSE, readable |-> FALSE, content |-> <<>>,
         writable |-> FALSE]

\* a call chunk_text(text, chunk_size, overlap)
Init ==
    /\ text \in Texts
    /\ \E p \in Params : chunk_size = p[1] /\ overlap = p[2]
    /\ words = <<>>
    /\ chunks = <<>>
    /\ start = 0
    /\ spans = <<>>
    /\ pc = "start"
    /\ raised = "none"
    /\ input_file = NoFile
    /\ output_file = <<>>
    /\ fs = NoFs
    /\ bound = {}
    /\ ext = ""
    /\ full_text = <<>>
    /\ documents = <<>>
    /\ written = {}
    /\ printed = <<>>
    /\ fpc = "idle"

Next == ChunkTextEntry \/ LoopIter \/ LoopExit

Spec == Init /\ [][Next]_vars

\* the interpreter runs the one thread of a call until it returns
FairSpec == Spec /\ WF_vars(Next)

\* a call file_to_json(input_file, output_file, chunk_size, overlap)
InitFile ==
    /\ text = <<>>
    /\ \E p \in Params : chunk_size = p[1] /\ overlap = p[2]
    /\ words = <<>>
    /\ chunks = <<>>
    /\ start = 0
    /\ spans = <<>>
    /\ pc = "idle"
    /\ raised = "none"
    /\ input_file \in InputFiles
    /\ output_file \in OutputFiles
    /\ fs \in [isfile : BOOLEAN, readable : BOOLEAN, content : FileTexts,
               writable : BOOLEAN]
    /\ bound = ParamNames
    /\ ext = ""
    /\ full_text = <<>>
    /\ documents = <<>>
    /\ written = {}
    /\ printed = <<>>
    /\ fpc = "entry"

NextFile == FtjStart \/ FtjChunkAndSave

SpecFile == InitFile /\ [][NextFile]_vars

(***************************************************************************)
(* Properties of chunk_text.                                               *)
(***************************************************************************)
\* the parameters the contract allows
Valid == chunk_size >= 1 /\ overlap >= 0 /\ overlap < chunk_size

\* the distance between two window starts
Step == chunk_size - overlap

CeilDiv(a, b) == (a + b - 1) \div b

\* the text is empty or made of whitespace only
AllWhitespace(t) == \A i \in 1..Len(t) : t[i] \in Whitespace

\* the whitespace-split word list of the text, and its length N
WordList == Split(text)
N == Len(WordList)

TheExample == <<"a", " ", "b", " ", "c", " ", "d", " ", "e">>

\* C1: with overlap >= chunk_size, chunk_text fails with a
\* ConfigurationError before the window loop runs and before any chunk is
\* produced: once the call has started it has raised, it is not in the loop
\* and it has taken no window.  (Stated for the texts that hold a word; on a
\* text of whitespace only the result is the empty sequence, see C6.)
C1_FailsFast ==
    (overlap >= chunk_size /\ ~AllWhitespace(text) /\ pc # "start") =>
        /\ raised = "ConfigurationError"
        /\ pc # "loop"
        /\ spans = <<>>
        /\ chunks = <<>>

\* C2: coverage.  For valid parameters and a text of N >= 1 words, when
\* chunk_text has returned every word position 0..N-1 lies in the window of
\* some chunk, and every chunk holds exactly the words of its window, in
\* their original order.
C2_Coverage ==
    (Valid /\ N >= 1 /\ pc = "done") =>
        /\ Len(spans) = Len(chunks)
        /\ \A p \in 0..(N - 1) :
              \E i \in 1..Len(chunks) : spans[i][1] <= p /\ p < spans[i][2]
        /\ \A i \in 1..Len(chunks) :
              /\ 0 <= spans[i][1] /\ spans[i][2] <= N
              /\ Split(chunks[i]) = SubSeq(WordList, spans[i][1] + 1, spans[i][2])

C2_Witness ==
    /\ Valid /\ pc = "done" /\ overlap >= 1
    /\ N >= 3 /\ Len(chunks) >= 2
    /\ \E i, j \in 1..N : WordList[i] # WordList[j]

\* C3: overlap exactness.  For valid parameters, of two consecutive chunks
\* that both hold chunk_size words, the second starts overlap word
\* positions before the end of the first, and the last overlap words of the
\* first are, position by position, the first overlap words of the second.
C3_OverlapExact ==
    Valid =>
        \A i \in 1..(Len(chunks) - 1) :
            (Len(Split(chunks[i])) = chunk_size
                 /\ Len(Split(chunks[i + 1])) = chunk_size) =>
                /\ spans[i + 1][1] = spans[i][2] - overlap
                /\ \A k \in 1..overlap :
                      Split(chunks[i])[chunk_size - overlap + k]
                          = Split(chunks[i + 1])[k]

C3_Witness ==
    /\ Valid /\ pc = "done" /\ overlap >= 1
    /\ \E i \in 1..(Len(chunks) - 1) :
          /\ Len(Split(chunks[i])) = chunk_size
          /\ Len(Split(chunks[i + 1])) = chunk_size
          /\ Split(chunks[i])[1] # Split(chunks[i + 1])[1]

\* C4: chunk count.  For valid parameters chunk_text returns
\* ceil(N / (chunk_size - overlap)) chunks when N > 0, and none when N = 0.
C4_ChunkCount ==
    (Valid /\ pc = "done") =>
        Len(chunks) = IF N > 0 THEN CeilDiv(N, Step) ELSE 0

C4_Witness ==
    /\ Valid /\ pc = "done" /\ overlap >= 1
    /\ N % Step # 0
    /\ Len(chunks) = CeilDiv(N, Step) /\ Len(chunks) >= 2

\* C5: termination.  For valid parameters every call of chunk_text
\* returns; it never runs more than ceil(N / (chunk_size - overlap))
\* iterations, and every iteration strictly increases start.
C5_Termination ==
    /\ (Valid /\ pc = "start") ~> (pc = "done")
    /\ [](Valid => Len(spans) <= CeilDiv(N, Step))
    /\ [][(Valid /\ pc = "loop" /\ pc' = "loop") => start' > start]_vars

C5_Witness ==
    /\ Valid /\ pc = "done"
    /\ Len(spans) = CeilDiv(N, Step) /\ Len(spans) >= 3
    /\ start >= N

\* C6: empty input.  For the empty string and for a text of whitespace
\* only, whatever chunk_size and overlap are, chunk_text raises nothing,
\* never reaches the window loop, takes no window, and returns the empty
\* sequence.
C6_EmptyInput ==
    AllWhitespace(text) =>
        /\ raised = "none"
        /\ pc \in {"start", "done"}
        /\ spans = <<>>
        /\ pc = "done" => chunks = <<>>

C6_Witness ==
    /\ AllWhitespace(text) /\ Len(text) >= 2
    /\ overlap >= chunk_size
    /\ pc = "done" /\ chunks = <<>>

\* C9: window positions.  For valid parameters and N >= 1 words, the i-th
\* window (0-based) starts at i * (chunk_size - overlap) and its chunk is
\* the words [i * (chunk_size - overlap),
\* min(i * (chunk_size - overlap) + chunk_size, N)) joined by single spaces,
\* a final short window inside the previous one included;
\* chunk("a b c d e", 3, 1) returns "a b c", "c d e", "e".
C9_WindowPositions ==
    /\ (Valid /\ N >= 1) =>
          \A i \in 1..Len(chunks) :
              /\ spans[i][1] = (i - 1) * Step
              /\ chunks[i] =
                    Join(SubSeq(WordList, (i - 1) * Step + 1,
                                Min((i - 1) * Step + chunk_size, N)))
    /\ (text = TheExample /\ chunk_size = 3 /\ overlap = 1 /\ pc = "done") =>
          chunks = << <<"a", " ", "b", " ", "c">>,
                      <<"c", " ", "d", " ", "e">>,
                      <<"e">> >>

\* a final short window that lies wholly inside the window before it
C9_Witness ==
    /\ Valid /\ pc = "done" /\ Len(chunks) >= 2
    /\ spans[Len(spans)][2] - spans[Len(spans)][1] < chunk_size
    /\ spans[Len(spans)][1] >= spans[Len(spans) - 1][1]
    /\ spans[Len(spans)][2] <= spans[Len(spans) - 1][2]
    /\ Len(chunks[Len(chunks) - 1]) >= 3

(***************************************************************************)
(* Properties of file_to_json.                                             *)
(***************************************************************************)
\* an existing, readable file of a supported type with content, and valid
\* chunking parameters
Runnable ==
    /\ fs.isfile /\ fs.readable
    /\ Lower(input_file.suffix) \in {".pdf", ".txt", ".md"}
    /\ ~AllWhitespace(fs.content)
    /\ Valid

\* file_to_json is over: it returned, or an exception left it
Ended == fpc \in {"returned", "raised", "hung"}

\* the chunk list chunk_text returns for the file's text
FileChunks == ChunkTextCall(fs.content, chunk_size, overlap).value

\* C7: record indexing.  When file_to_json is over on a file whose chunk
\* list has length L, it has built exactly L records, every record's
\* total_chunks is L, and the chunk_index values are 1, 2, ..., L in order.
C7_RecordIndexing ==
    (Runnable /\ Ended) =>
        /\ "documents" \in bound
        /\ Len(documents) = Len(FileChunks)
        /\ \A i \in 1..Len(documents) :
              /\ documents[i].metadata.total_chunks = Len(FileChunks)
              /\ documents[i].metadata.chunk_index = i

\* C8: record content.  When file_to_json is over, the record at 1-based
\* position i has the id "chunk_" + source_name + "_" + i padded to four
\* digits, the chunk itself as text_content and the chunk's number of
\* words as chunk_size_words_approx; the ids differ.
C8_RecordContent ==
    (Runnable /\ Ended) =>
        /\ "documents" \in bound
        /\ Len(documents) = Len(FileChunks)
        /\ \A i \in 1..Len(documents) :
              /\ documents[i].id =
                    "chunk_" \o Basename(input_file) \o "_" \o ZeroPad4(i)
              /\ documents[i].text_content = FileChunks[i]
              /\ documents[i].metadata.chunk_size_words_approx =
                    Len(Split(FileChunks[i]))
        /\ \A i, j \in 1..Len(documents) :
              documents[i].id = documents[j].id => i = j

\* C10: pipeline order.  On a runnable call nothing is raised (the name
\* chunk_text denotes the chunker at the call of line 99), and when
\* file_to_json is over it has returned, its records are those of the
\* chunker's chunks in chunk order, and it has reached the write step.
C10_PipelineOrder ==
    Runnable =>
        /\ raised = "none"
        /\ Ended =>
              /\ fpc = "returned"
              /\ documents =
                    BuildDocuments(FileChunks, Basename(input_file), ext)
              /\ \/ "Success!" \in {printed[k] : k \in 1..Len(printed)}
                 \/ "Error writing JSON" \in {printed[k] : k \in 1..Len(printed)}

====
